---- MODULE Spec2Model ----
(***************************************************************************)
(* Property24Scraper (src/src/types.ts): one scraper instance, the browser *)
(* page it drives and the site behind it.  Every awaited browser call is   *)
(* one step; a call that can reject picks its outcome with \E.             *)
(* A URL is the sequence of its tokens ("/" and the text between slashes), *)
(* so that a regular-expression test is a search for a run of tokens; a   *)
(* text is the sequence of its words.  The scrape command of the CLI       *)
(* (src/unnamed/part_000) is the caller in CliSpec, and insertProperty on  *)
(* the properties table is taken alone in StoreSpec.                       *)
(***************************************************************************)
EXTENDS Integers, Sequences, FiniteSets, TLC

VARIABLES
    site,                 \* the web site: what its pages expose (fixed for a behaviour)
    browser,              \* this.browser: "null", "open" or "closed"
    screenshotCounter,    \* this.screenshotCounter
    listingUrlForSuburb,  \* this.listingUrlForSuburb (<<>> is null)
    pc,                   \* the statement the running method is at; "idle" between calls
    page,                 \* the page handle of the running scrapeSuburb: "none", "open", "closed"
    curUrl,               \* page.url()
    curPage,              \* number of the listing page the browser shows (0: not a listing page)
    searchUrl,            \* scrapeSuburb's searchUrl (<<>> until resolved)
    selIdx,               \* findListingUrlForSuburb's position in searchInputSelectors
    allProperties,        \* extractPropertiesWithPagination's accumulator
    pageNumber,           \* extractPropertiesWithPagination's pageNumber
    exc,                  \* the exception in flight (<<>> when none), as <<message>>
    result,               \* the value scrapeSuburb returned (<<>> until it returns), as <<ScraperResult>>
    lastShot,             \* takeScreenshot's last console line: "none", "saved", "failed"
    runs,                 \* history: scrapeSuburb calls made on this instance
    extractCalls,         \* history: extractProperties calls of the running scrapeSuburb
    probed,               \* history: candidates findListingUrlForSuburb looked up, in order
    flowed,               \* history: candidates whose search flow was started, in order
    resolvedOnce,         \* history: the URL findListingUrlForSuburb last returned on this instance
    pageProperties,       \* extractPropertiesWithPagination's pageProperties
    warnings,             \* the console warnings of the running scrapeSuburb, as a set of kinds
    lastWait,             \* how the waits of goToNextPage just ended: "none", "navigated", "cards", "timeout"
    cli,                  \* the statement the CLI's scrape command is at; "off": another caller
    saveIdx,              \* the scrape command's position in result.properties
    savedCount,           \* the scrape command's savedCount
    upsertLog,            \* history: the insertProperty calls of the scrape command, as [property, ok]
    closeCalls,           \* history: the scraper.close() calls of the scrape command
    db,                   \* the properties table: its rows, its id sequence and the clock
    upserted,             \* history: the records upserted since dbBefore
    dbBefore,             \* history: the table before the records of upserted
    fatal,                \* the error the scrape command's catch printed before exit(1); "none"
    addressText,          \* the argument of parseAddress, a sequence of tokens
    addressParts,         \* the value parseAddress returned, as <<parts>> (<<>> before the call)
    priceText,            \* the argument of parsePrice, a sequence of tokens
    parsedPrice,          \* the value parsePrice returned, as <<prices>> (<<>> before the call)
    activations,          \* history: next-page controls clicked by the running scrapeSuburb
    clicked               \* history: the candidate whose control goToNextPage last clicked (0: none)

vars == <<site, browser, screenshotCounter, listingUrlForSuburb, pc, page, curUrl,
          curPage, searchUrl, selIdx, allProperties, pageNumber, exc, result,
          lastShot, runs, extractCalls, probed, flowed, resolvedOnce,
          pageProperties, warnings, lastWait, cli, saveIdx, savedCount, upsertLog,
          closeCalls, db, upserted, dbBefore, fatal, addressText, addressParts,
          priceText, parsedPrice, activations, clicked>>

\* the state of the CLI's scrape command and of the table
cliVars == <<cli, saveIdx, savedCount, upsertLog, closeCalls, db, upserted, dbBefore, fatal>>

\* the history of the clicks of goToNextPage
walkHist == <<activations, clicked>>

\* the arguments and values of the parsers taken alone
parseVars == <<addressText, addressParts, priceText, parsedPrice>>

\* the same, without the position of the command
cliData == <<saveIdx, savedCount, upsertLog, closeCalls, db, upserted, dbBefore, fatal>>

----------------------------------------------------------------------------
(* Bounds of the model *)

\* scrapeSuburb calls made on one instance
MaxRuns == 2
\* a further scrapeSuburb call is made only while the screenshot counter is below this
MaxShotsAtCall == 6
\* the sites with a short result list have 1..MaxSitePages pages
MaxSitePages == 3
\* tokens of an address text given to parseAddress taken alone
MaxAddressLen == 6
\* tokens of a price text given to parsePrice taken alone
MaxPriceLen == 4

----------------------------------------------------------------------------
(* Program constants *)

maxPages == 100

BASE_URL == <<"https:", "/", "/", "www.property24.com">>

\* the candidates of goToNextPage, in list order
nextPageSelectors ==
    << "a[rel=\"next\"]", "button:has-text(\"Next\")", "[class*=\"next\"] a",
       "a[aria-label*=\"next\"]", "a[title*=\"next\"]" >>

searchInputSelectors ==
    << "input[id*=\"token-input-AutoCompleteItems\"]",
       "input[placeholder*=\"Search for a City, Suburb or Web Reference\"]" >>

suburb == "Sandton"

----------------------------------------------------------------------------
(* Sequences of tokens *)

\* s contains the run of tokens t
Contains(s, t) ==
    \E i \in 0..(Len(s) - Len(t)) : \A j \in 1..Len(t) : s[i + j] = t[j]

\* the /i flag: the tokens of the model that are not lower case
ToLower(tok) ==
    CASE tok = "Properties" -> "properties"
      [] tok = "FOR-SALE"   -> "for-sale"
      [] tok = "P"          -> "p"
      [] tok \in {"Sold", "SOLD"} -> "sold"
      [] tok = "Offer"      -> "offer"
      [] tok = "Under"      -> "under"
      [] tok = "Listed"     -> "listed"
      [] tok = "No"         -> "no"
      [] tok = "For"        -> "for"
      [] tok = "Sale"       -> "sale"
      [] OTHER              -> tok

LowerUrl(u) == [i \in 1..Len(u) |-> ToLower(u[i])]

\* String.toLowerCase of a text
toLowerCase(text) == [i \in 1..Len(text) |-> ToLower(text[i])]

\* String.includes: the keyword is a word of the text or inside one
includes(text, kw) ==
    \E i \in 1..Len(text) : text[i] = kw \/ (text[i] = "offers" /\ kw = "offer")

----------------------------------------------------------------------------
(* The web site *)

\* lastPage of a site whose every page exposes a next-page control
Endless == 0

\* a site: is the consent banner there, which search inputs exist, is the
\* search button there, which listing page is the last to expose no
\* next-page control, and which candidates of goToNextPage the next-page
\* control matches.  The control matches the first candidate, or, on sites
\* where only the first search input exists, the third and the fifth
ShortSites ==
    [banner : BOOLEAN, inputs : [1..Len(searchInputSelectors) -> BOOLEAN],
     button : BOOLEAN, lastPage : 1..MaxSitePages, next : { {1} }]
        \cup
    [banner : {FALSE}, inputs : {[i \in 1..Len(searchInputSelectors) |-> i = 1]},
     button : {TRUE}, lastPage : 1..MaxSitePages, next : { {3, 5} }]

\* the sites with a long result list: only the first search input exists
LongSites ==
    [banner : {FALSE}, inputs : {[i \in 1..Len(searchInputSelectors) |-> i = 1]},
     button : {TRUE}, lastPage : {maxPages, Endless}, next : { {1} }]

Sites == ShortSites \cup LongSites

HomeUrl == BASE_URL \o <<"/">>

\* the URLs a submitted search can end on
AcceptedLanding ==
    { BASE_URL \o <<"/", "for-sale", "/", "sandton", "/", "109">>,
      BASE_URL \o <<"/", "Properties", "/", "sandton">>,
      BASE_URL \o <<"/", "p", "/", "sandton">> }

RejectedLanding ==
    { HomeUrl,
      BASE_URL \o <<"/", "properties">>,
      BASE_URL \o <<"/", "to-rent", "/", "sandton">> }

LandingUrls == AcceptedLanding \cup RejectedLanding

\* listing containers: the hrefs of the links matching a[href*="/for-sale/"],
\* the href of the title link (<<>>: none), the text of the address elements,
\* the texts of the spans, and whether parsing the container raises
cardA ==
    [forSale |-> << <<"/", "for-sale", "/", "sandton", "/", "a1">>,
                    <<"/", "for-sale", "/", "sandton", "/", "a1", "/", "photos">> >>,
     address |-> <<>>,
     title |-> <<>>, spans |-> << <<"For", "Sale">> >>, raises |-> FALSE]

cardB ==
    [forSale |-> << <<"/", "for-sale", "/", "sandton", "/", "b2">> >>,
     address |-> <<>>,
     title |-> <<>>, spans |-> << <<"Sold">> >>, raises |-> FALSE]

\* the listing of cardB with another status
cardB2 ==
    [forSale |-> << <<"/", "for-sale", "/", "sandton", "/", "b2">> >>,
     address |-> <<"5 Oak St", ",", " ", "The Oaks", ",", " ", "Rosebank", ",">>,
     title |-> <<>>, spans |-> << <<"Under", "Offer">> >>, raises |-> FALSE]

\* an absolute link; the status text holds both keywords
cardAbs ==
    [forSale |-> << BASE_URL \o <<"/", "for-sale", "/", "sandton", "/", "c3">> >>,
     address |-> <<"9 Pine Rd", ",", "Pinewood", ",", " ", ",", "Johannesburg", ",">>,
     title |-> <<>>, spans |-> << <<"SOLD", "-", "offer", "accepted">> >>, raises |-> FALSE]

cardNoLink ==
    [forSale |-> <<>>, title |-> <<>>, address |-> <<>>,
     spans |-> << <<"Sold">> >>, raises |-> FALSE]

cardRaises ==
    [forSale |-> << <<"/", "for-sale", "/", "sandton", "/", "r6">> >>,
     address |-> <<>>,
     title |-> <<>>, spans |-> <<>>, raises |-> TRUE]

\* no /for-sale/ link, a title link; the first span with a keyword is not
\* the one that says sold
cardTitle ==
    [forSale |-> <<>>, title |-> <<"/", "sandton", "/", "t4">>,
     address |-> <<"1 Elm St", ",", ",", "Bryanston">>,
     spans |-> << <<"Listed", "today">>, <<"Sold">> >>, raises |-> FALSE]

\* a relative link whose first path segment starts with the letters http
cardHttpdocs ==
    [forSale |-> << <<"httpdocs", "/", "for-sale", "/", "d5">> >>,
     address |-> <<"7 Ash Ln", ",", "Ashwood">>,
     title |-> <<>>, spans |-> << <<"No", "offers">> >>, raises |-> FALSE]

\* the containers of the listing pages, repeating every Len(Layouts) pages:
\* page 2 has no container, page 3 repeats the listings of page 1 in
\* another order and with other values
Layouts ==
    << <<cardA, cardB>>,
       <<>>,
       <<cardB2, cardNoLink, cardRaises, cardHttpdocs, cardA>>,
       <<cardTitle, cardAbs>> >>

PageHtml(p) == Layouts[((p - 1) % Len(Layouts)) + 1]

HasNextControl(p) == site.lastPage = Endless \/ p < site.lastPage

\* the candidates that exist on listing page p
NextControls(p) == IF HasNextControl(p) THEN site.next ELSE {}

\* the first candidate, in list order, that exists on page p (0: none)
firstCandidate(p) ==
    IF NextControls(p) = {} THEN 0
    ELSE CHOOSE i \in NextControls(p) : \A j \in NextControls(p) : i <= j

----------------------------------------------------------------------------
(* Property24Scraper: pure parts *)

\* propertyUrl.startsWith("http"): the first tokens of the model that start
\* with these four letters
startsWithHttp(u) == Len(u) > 0 /\ u[1] \in {"http:", "https:", "httpdocs"}

\* the href of the first /for-sale/ link, else the href of the title link
resolveUrl(c) == IF c.forSale # <<>> THEN c.forSale[1] ELSE c.title

fullUrl(propertyUrl) ==
    IF startsWithHttp(propertyUrl) THEN propertyUrl ELSE BASE_URL \o propertyUrl

\* String.split(","): the segments between the commas
RECURSIVE split(_)
split(text) ==
    IF \A i \in 1..Len(text) : text[i] # ","
    THEN << text >>
    ELSE LET i == CHOOSE j \in 1..Len(text) :
                      text[j] = "," /\ \A k \in 1..(j - 1) : text[k] # ","
         IN  << SubSeq(text, 1, i - 1) >> \o split(SubSeq(text, i + 1, Len(text)))

\* String.trim: the white space at both ends is dropped
RECURSIVE trim(_)
trim(p) ==
    IF p = <<>> THEN p
    ELSE IF Head(p) = " " THEN trim(Tail(p))
    ELSE IF p[Len(p)] = " " THEN trim(SubSeq(p, 1, Len(p) - 1))
    ELSE p

\* parts[k - 1] || undefined (<<>>: undefined)
orUndefined(parts, k) ==
    IF k <= Len(parts) /\ parts[k] # <<>> THEN << parts[k] >> ELSE <<>>

\* the empty segments dropped before the fields are filled
parseAddress_dropEmpty(text) ==
    LET parts == SelectSeq([i \in 1..Len(split(text)) |-> trim(split(text)[i])],
                           LAMBDA p : p # <<>>)
    IN  [street |-> orUndefined(parts, 1),
         estate |-> orUndefined(parts, 2),
         suburb |-> orUndefined(parts, 3),
         city |-> orUndefined(parts, 4),
         postalCode |-> orUndefined(parts, 5)]

parseAddress(text) ==
    LET parts == [i \in 1..Len(split(text)) |-> trim(split(text)[i])]
    IN  [street |-> orUndefined(parts, 1),
         estate |-> orUndefined(parts, 2),
         suburb |-> orUndefined(parts, 3),
         city |-> orUndefined(parts, 4),
         postalCode |-> orUndefined(parts, 5)]

\* $element.find('[class*="address"], .address, span').text(): the texts of
\* the address elements and of all the spans, one after the other
RECURSIVE concatText(_)
concatText(texts) ==
    IF texts = <<>> THEN <<>> ELSE Head(texts) \o concatText(Tail(texts))

addressTextOf(c) == c.address \o concatText(c.spans)

\* a record without suburb when the address gives none
recordSuburb_noDefault(parts) ==
    IF parts.suburb # <<>> THEN parts.suburb[1] ELSE <<>>

\* addressParts.suburb || this.options.suburb
recordSuburb(parts) ==
    IF parts.suburb # <<>> THEN parts.suburb[1] ELSE << suburb >>

\* the filter of the status elements
isStatusElement(span) ==
    \/ includes(toLowerCase(span), "sold")
    \/ includes(toLowerCase(span), "offer")
    \/ includes(toLowerCase(span), "listed")

\* statusEl.text().toLowerCase() of the first status element ("" when none)
statusText(c) ==
    LET els == SelectSeq(c.spans, isStatusElement)
    IN  IF els = <<>> THEN <<>> ELSE toLowerCase(els[1])

\* the test for offer made before the test for sold
classifyStatus_offerFirst(text) ==
    IF includes(text, "offer") THEN "under_offer"
    ELSE IF includes(text, "sold") THEN "sold"
    ELSE "undefined"

classifyStatus(text) ==
    IF includes(text, "sold") THEN "sold"
    ELSE IF includes(text, "offer") THEN "under_offer"
    ELSE "undefined"

\* a container without a URL pushed all the same
extractContainer_noSkip(c) ==
    IF c.raises
    THEN <<>>
    ELSE << [property_url |-> fullUrl(resolveUrl(c)),
             suburb |-> recordSuburb(parseAddress(addressTextOf(c))),
             status |-> classifyStatus(statusText(c))] >>

\* the record of one container; <<>> when the container has no URL and when
\* its parsing raises (caught and warned)
extractContainer(c) ==
    IF c.raises
    THEN <<>>
    ELSE IF resolveUrl(c) = <<>>
    THEN <<>>
    ELSE << [property_url |-> fullUrl(resolveUrl(c)),
             suburb |-> recordSuburb(parseAddress(addressTextOf(c))),
             status |-> classifyStatus(statusText(c))] >>

\* the try put around the loop: the first container that raises ends it
RECURSIVE extractProperties_abort(_)
extractProperties_abort(html) ==
    IF html = <<>> \/ Head(html).raises THEN <<>>
    ELSE extractContainer(Head(html)) \o extractProperties_abort(Tail(html))

RECURSIVE extractProperties(_)
extractProperties(html) ==
    IF html = <<>> THEN <<>>
    ELSE extractContainer(Head(html)) \o extractProperties(Tail(html))

\* the console warnings of one extractProperties
extractWarnings(html) ==
    (IF html = <<>> THEN {"no-elements"} ELSE {})
        \cup (IF \E i \in 1..Len(html) : html[i].raises THEN {"parse-failed"} ELSE {})

\* the characters of the class [\s,\d.] among the tokens of a price text
\* (a token is one character, or the unit "per m²" in any letter case)
priceClass == {" ", ",", ".", "1"}

\* where the run of class characters that follows position i ends
runEnd(text, i) ==
    CHOOSE j \in i..Len(text) :
        /\ \A k \in (i + 1)..j : text[k] \in priceClass
        /\ (j < Len(text) => text[j + 1] \notin priceClass)

\* priceText.match(/R[\s,\d.]+/): the leftmost match as <<match>>, <<>> for null
matchTotal(text) ==
    LET starts == {i \in 1..Len(text) : text[i] = "R" /\ runEnd(text, i) > i}
    IN  IF starts = {} THEN <<>>
        ELSE LET i == CHOOSE s \in starts : \A t \in starts : s <= t
             IN  << SubSeq(text, i, runEnd(text, i)) >>

\* priceText.match(/R[\s,\d.]+\s*per\s*m²/i)
matchPerSqm(text) ==
    LET starts == {i \in 1..Len(text) :
                      /\ text[i] \in {"R", "r"}
                      /\ runEnd(text, i) > i
                      /\ runEnd(text, i) < Len(text)
                      /\ text[runEnd(text, i) + 1] = "per m²"}
    IN  IF starts = {} THEN <<>>
        ELSE LET i == CHOOSE s \in starts : \A t \in starts : s <= t
             IN  << SubSeq(text, i, runEnd(text, i) + 1) >>

\* replace(/[R\s,]/g, "") and replace(/[R\s,\/m²]/gi, ""): of the unit the
\* second leaves the letters pe
RECURSIVE stripPrice(_)
stripPrice(match) ==
    IF match = <<>> THEN <<>>
    ELSE IF Head(match) \in {"R", "r", " ", ","} THEN stripPrice(Tail(match))
    ELSE IF Head(match) = "per m²" THEN <<"p", "e">> \o stripPrice(Tail(match))
    ELSE << Head(match) >> \o stripPrice(Tail(match))

\* the digits a string starts with
RECURSIVE leadingDigits(_)
leadingDigits(str) ==
    IF str # <<>> /\ Head(str) = "1"
    THEN <<"1">> \o leadingDigits(Tail(str))
    ELSE <<>>

\* parseFloat: the longest prefix that is a decimal number, NaN when the
\* string starts with none
parseFloat(str) ==
    LET int == leadingDigits(str)
        rest == SubSeq(str, Len(int) + 1, Len(str))
        frac == IF rest # <<>> /\ Head(rest) = "." THEN leadingDigits(Tail(rest)) ELSE <<>>
    IN  IF int = <<>> /\ frac = <<>>
        THEN [kind |-> "NaN", digits |-> <<>>]
        ELSE [kind |-> "number",
              digits |-> IF frac = <<>> THEN int ELSE int \o <<".">> \o frac]

\* match ? parseFloat(match[0].replace(...)) : undefined (<<>>: undefined)
parsePrice(text) ==
    [totalPrice |-> IF matchTotal(text) = <<>> THEN <<>>
                    ELSE << parseFloat(stripPrice(matchTotal(text)[1])) >>,
     pricePerSqm |-> IF matchPerSqm(text) = <<>> THEN <<>>
                     ELSE << parseFloat(stripPrice(matchPerSqm(text)[1])) >>]

\* the resolved URL returned untested
acceptsUrl_any(resolved) == TRUE

\* the test of the resolved URL
acceptsUrl(resolved) ==
    \/ Contains(LowerUrl(resolved), <<"/", "properties", "/">>)
    \/ Contains(LowerUrl(resolved), <<"for-sale">>)
    \/ Contains(LowerUrl(resolved), <<"/", "p", "/">>)

\* the catch block without errors.push
FailureResult_noPush(msg) ==
    [success |-> FALSE, propertiesScraped |-> 0, propertiesSaved |-> 0,
     errors |-> <<>>,
     message |-> <<"Failed to scrape properties: ", msg>>,
     properties |-> <<>>]

FailureResult(msg) ==
    [success |-> FALSE, propertiesScraped |-> 0, propertiesSaved |-> 0,
     errors |-> <<msg>>,
     message |-> <<"Failed to scrape properties: ", msg>>,
     properties |-> <<>>]

SuccessResult(properties) ==
    [success |-> TRUE, propertiesScraped |-> Len(properties), propertiesSaved |-> 0,
     errors |-> <<>>,
     message |-> <<"Successfully scraped ", Len(properties), " properties from ", suburb>>,
     properties |-> properties]

\* takeScreenshot without its catch
takeScreenshotCompletes_rethrow(shotOk) == shotOk

\* takeScreenshot returns normally: a rejected page.screenshot is caught and logged
takeScreenshotCompletes(shotOk) == IF shotOk THEN TRUE ELSE TRUE

----------------------------------------------------------------------------
(* The properties table and insertProperty *)

EmptyDb == [rows |-> <<>>, nextId |-> 1, now |-> 0]

\* an undefined query parameter is stored as NULL
nullIfUndefined(v) == IF v = "undefined" THEN "null" ELSE v

\* INSERT without the ON CONFLICT clause and without the UNIQUE constraint
insertProperty_noConflict(d, property) ==
    [rows |-> Append(d.rows,
                     [id |-> d.nextId,
                      property_url |-> property.property_url,
                      suburb |-> property.suburb,
                      status |-> nullIfUndefined(property.status),
                      created_at |-> d.now + 1,
                      updated_at |-> d.now + 1]),
     nextId |-> d.nextId + 1,
     now |-> d.now + 1]

\* INSERT ... ON CONFLICT (property_url) DO UPDATE SET ... on the table d:
\* the row of the URL gets the values of the property and a new updated_at,
\* or a new row is appended with the next id
insertProperty(d, property) ==
    LET hit == {i \in 1..Len(d.rows) : d.rows[i].property_url = property.property_url}
    IN  [rows |-> IF hit = {}
                  THEN Append(d.rows,
                              [id |-> d.nextId,
                               property_url |-> property.property_url,
                               suburb |-> property.suburb,
                               status |-> nullIfUndefined(property.status),
                               created_at |-> d.now + 1,
                               updated_at |-> d.now + 1])
                  ELSE [i \in 1..Len(d.rows) |->
                           IF i \in hit
                           THEN [d.rows[i] EXCEPT !.suburb = property.suburb,
                                                  !.status = nullIfUndefined(property.status),
                                                  !.updated_at = d.now + 1]
                           ELSE d.rows[i]],
         nextId |-> d.nextId + 1,
         now |-> d.now + 1]

\* the records upserted into the table taken alone
StoreRecords ==
    [property_url : { BASE_URL \o <<"/", "for-sale", "/", "sandton", "/", "a1">>,
                      BASE_URL \o <<"/", "for-sale", "/", "sandton", "/", "b2">> },
     suburb : { <<suburb>>, <<"Rosebank">> },
     status : {"undefined", "sold", "under_offer"}]

\* the tables the taken-alone table starts from: empty, or left by one or
\* two upserts
StoreStates ==
    {EmptyDb}
        \cup {insertProperty(EmptyDb, r) : r \in StoreRecords}
        \cup {insertProperty(insertProperty(EmptyDb, r), q) : r \in StoreRecords, q \in StoreRecords}

\* the table the scrape command can find: empty, or holding the listing b2
SeededDb ==
    insertProperty(EmptyDb,
                   [property_url |-> BASE_URL \o <<"/", "for-sale", "/", "sandton", "/", "b2">>,
                    suburb |-> <<suburb>>, status |-> "undefined"])

----------------------------------------------------------------------------
(* Initial state: a constructed scraper, no method running *)

ScraperInit ==
    /\ browser = "null"
    /\ screenshotCounter = 0
    /\ listingUrlForSuburb = <<>>
    /\ pc = "idle"
    /\ page = "none"
    /\ curUrl = <<>>
    /\ curPage = 0
    /\ searchUrl = <<>>
    /\ selIdx = 1
    /\ allProperties = <<>>
    /\ pageNumber = 1
    /\ exc = <<>>
    /\ result = <<>>
    /\ lastShot = "none"
    /\ runs = 0
    /\ extractCalls = 0
    /\ probed = <<>>
    /\ flowed = <<>>
    /\ resolvedOnce = <<>>
    /\ pageProperties = <<>>
    /\ warnings = {}
    /\ lastWait = "none"
    /\ saveIdx = 1
    /\ savedCount = 0
    /\ upsertLog = <<>>
    /\ closeCalls = 0
    /\ upserted = <<>>
    /\ fatal = "none"
    /\ activations = 0
    /\ clicked = 0
    /\ addressParts = <<>>
    /\ parsedPrice = <<>>

\* the scraper used by any caller
Init ==
    /\ site \in Sites
    /\ ScraperInit
    /\ cli = "off"
    /\ db = EmptyDb
    /\ dbBefore = EmptyDb
    /\ addressText = <<>>
    /\ priceText = <<>>

\* the scrape command of the CLI starts, on a site with a short result list
CliInit ==
    /\ site \in ShortSites
    /\ ScraperInit
    /\ cli = "connect"
    /\ db \in {EmptyDb, SeededDb}
    /\ dbBefore = EmptyDb
    /\ addressText = <<>>
    /\ priceText = <<>>

\* the table taken alone (the site plays no part)
StoreInit ==
    /\ site \in LongSites
    /\ ScraperInit
    /\ cli = "off"
    /\ db \in StoreStates
    /\ dbBefore = db
    /\ addressText = <<>>
    /\ priceText = <<>>

----------------------------------------------------------------------------
(* The caller's operations *)

\* new Property24Scraper(options)
Construct ==
    /\ pc = "idle"
    /\ cli \in {"off", "construct"}
    /\ cli' = IF cli = "off" THEN "off" ELSE "init"
    /\ browser' = "null"
    /\ screenshotCounter' = 0
    /\ listingUrlForSuburb' = <<>>
    /\ page' = "none"
    /\ curUrl' = <<>>
    /\ curPage' = 0
    /\ searchUrl' = <<>>
    /\ selIdx' = 1
    /\ allProperties' = <<>>
    /\ pageNumber' = 1
    /\ exc' = <<>>
    /\ result' = <<>>
    /\ lastShot' = "none"
    /\ runs' = 0
    /\ extractCalls' = 0
    /\ probed' = <<>>
    /\ flowed' = <<>>
    /\ resolvedOnce' = <<>>
    /\ pageProperties' = <<>>
    /\ warnings' = {}
    /\ lastWait' = "none"
    /\ UNCHANGED <<site, pc>>
    /\ UNCHANGED cliData
    /\ UNCHANGED parseVars
    /\ activations' = 0
    /\ clicked' = 0

\* init() without the throw of its catch: the command goes on without browser
init_swallow ==
    /\ pc = "idle"
    /\ cli \in {"off", "init"}
    /\ \E launched \in BOOLEAN :
          /\ browser' = IF launched THEN "open" ELSE browser
          /\ cli' = IF cli = "off" THEN "off" ELSE "scrape"
          /\ fatal' = fatal
    /\ lastShot' = "none"
    /\ UNCHANGED <<site, screenshotCounter, listingUrlForSuburb, pc, page, curUrl,
                   curPage, searchUrl, selIdx, allProperties, pageNumber, exc,
                   result, runs, extractCalls, probed, flowed, resolvedOnce>>
    /\ UNCHANGED <<pageProperties, warnings, lastWait>>
    /\ UNCHANGED <<saveIdx, savedCount, upsertLog, closeCalls, db, upserted, dbBefore>>
    /\ UNCHANGED parseVars
    /\ UNCHANGED walkHist

\* init(): puppeteer.launch resolves or rejects (the rejection is rethrown
\* and ends the scrape command)
init ==
    /\ pc = "idle"
    /\ cli \in {"off", "init"}
    /\ \E launched \in BOOLEAN :
          /\ browser' = IF launched THEN "open" ELSE browser
          /\ cli' = IF cli = "off" THEN "off" ELSE IF launched THEN "scrape" ELSE "exit1"
          /\ fatal' = IF cli = "off" \/ launched THEN fatal ELSE "launch"
    /\ lastShot' = "none"
    /\ UNCHANGED <<site, screenshotCounter, listingUrlForSuburb, pc, page, curUrl,
                   curPage, searchUrl, selIdx, allProperties, pageNumber, exc,
                   result, runs, extractCalls, probed, flowed, resolvedOnce>>
    /\ UNCHANGED <<pageProperties, warnings, lastWait>>
    /\ UNCHANGED <<saveIdx, savedCount, upsertLog, closeCalls, db, upserted, dbBefore>>
    /\ UNCHANGED parseVars
    /\ UNCHANGED walkHist

\* close(): browser.close() when there is a browser (it resolves or rejects,
\* a rejection ends the scrape command); this.browser keeps the handle
close ==
    /\ pc = "idle"
    /\ cli \in {"off", "close"}
    /\ \E ok \in BOOLEAN :
          /\ browser' = IF browser # "null" /\ ok THEN "closed" ELSE browser
          /\ cli' = IF cli = "off" THEN "off"
                    ELSE IF browser = "null" \/ ok THEN "closeDB" ELSE "exit1"
          /\ fatal' = IF cli = "off" \/ browser = "null" \/ ok THEN fatal ELSE "close"
    /\ closeCalls' = IF cli = "off" THEN closeCalls ELSE closeCalls + 1
    /\ lastShot' = "none"
    /\ UNCHANGED <<site, screenshotCounter, listingUrlForSuburb, pc, page, curUrl,
                   curPage, searchUrl, selIdx, allProperties, pageNumber, exc,
                   result, runs, extractCalls, probed, flowed, resolvedOnce>>
    /\ UNCHANGED <<pageProperties, warnings, lastWait>>
    /\ UNCHANGED <<saveIdx, savedCount, upsertLog, db, upserted, dbBefore>>
    /\ UNCHANGED parseVars
    /\ UNCHANGED walkHist

----------------------------------------------------------------------------
(* scrapeSuburb *)

\* the call: the locals are fresh, the browser is tested
scrapeSuburb ==
    /\ pc = "idle"
    /\ cli \in {"off", "scrape"}
    /\ cli' = IF cli = "off" THEN "off" ELSE "save"
    /\ runs < MaxRuns
    /\ screenshotCounter < MaxShotsAtCall
    /\ runs' = runs + 1
    /\ page' = "none"
    /\ searchUrl' = <<>>
    /\ selIdx' = 1
    /\ allProperties' = <<>>
    /\ pageNumber' = 1
    /\ result' = <<>>
    /\ lastShot' = "none"
    /\ extractCalls' = 0
    /\ probed' = <<>>
    /\ flowed' = <<>>
    /\ IF browser = "null"
       THEN exc' = <<"Browser not initialized">> /\ pc' = "S_catch"
       ELSE exc' = <<>> /\ pc' = "S_newPage"
    /\ UNCHANGED <<site, browser, screenshotCounter, listingUrlForSuburb, curUrl,
                   curPage, resolvedOnce>>
    /\ pageProperties' = <<>>
    /\ warnings' = {}
    /\ UNCHANGED lastWait
    /\ UNCHANGED cliData
    /\ UNCHANGED parseVars
    /\ activations' = 0
    /\ clicked' = 0

\* browser.newPage(), then the entry of findListingUrlForSuburb: the memoized
\* URL is returned when there is one
newPage ==
    /\ pc = "S_newPage"
    /\ \E ok \in BOOLEAN :
          IF ok /\ browser = "open"
          THEN /\ page' = "open"
               /\ curUrl' = <<>>
               /\ curPage' = 0
               /\ IF listingUrlForSuburb # <<>>
                  THEN searchUrl' = listingUrlForSuburb /\ pc' = "S_goto"
                  ELSE searchUrl' = searchUrl /\ pc' = "F_gotoHome"
               /\ exc' = exc
          ELSE /\ exc' = <<"newPage rejected">>
               /\ pc' = "S_catch"
               /\ UNCHANGED <<page, curUrl, curPage, searchUrl>>
    /\ lastShot' = "none"
    /\ UNCHANGED <<site, browser, screenshotCounter, listingUrlForSuburb, selIdx,
                   allProperties, pageNumber, result, runs, extractCalls, probed,
                   flowed, resolvedOnce>>
    /\ UNCHANGED <<pageProperties, warnings, lastWait>>
    /\ UNCHANGED cliVars
    /\ UNCHANGED parseVars
    /\ UNCHANGED walkHist

\* page.goto(searchUrl) of the listing page
gotoListing ==
    /\ pc = "S_goto"
    /\ \E ok \in BOOLEAN :
          IF ok
          THEN /\ curUrl' = searchUrl
               /\ curPage' = 1
               /\ pc' = "shot_listing-page-loaded"
               /\ exc' = exc
          ELSE /\ exc' = <<"goto rejected">>
               /\ pc' = "S_finally"
               /\ UNCHANGED <<curUrl, curPage>>
    /\ lastShot' = "none"
    /\ UNCHANGED <<site, browser, screenshotCounter, listingUrlForSuburb, page,
                   searchUrl, selIdx, allProperties, pageNumber, result, runs,
                   extractCalls, probed, flowed, resolvedOnce>>
    /\ UNCHANGED <<pageProperties, warnings, lastWait>>
    /\ UNCHANGED cliVars
    /\ UNCHANGED parseVars
    /\ UNCHANGED walkHist

\* page.waitForSelector(property-card).catch(warn), then the entry of
\* extractPropertiesWithPagination
waitForCards ==
    /\ pc = "S_waitCards"
    /\ \E found \in BOOLEAN : pc' = "P_extract"
    /\ allProperties' = <<>>
    /\ pageNumber' = 1
    /\ lastShot' = "none"
    /\ UNCHANGED <<site, browser, screenshotCounter, listingUrlForSuburb, page,
                   curUrl, curPage, searchUrl, selIdx, exc, result, runs,
                   extractCalls, probed, flowed, resolvedOnce>>
    /\ UNCHANGED <<pageProperties, warnings, lastWait>>
    /\ UNCHANGED cliVars
    /\ UNCHANGED parseVars
    /\ UNCHANGED walkHist

\* the finally block of the inner try, page.close(), completes normally or
\* rejects; then the return of the success value, or the catch block
finally ==
    /\ pc = "S_finally"
    /\ \E ok \in BOOLEAN :
          LET thrown == IF ok THEN exc ELSE <<"page.close rejected">>
          IN  /\ page' = IF ok THEN "closed" ELSE page
              /\ result' = IF thrown = <<>>
                           THEN <<SuccessResult(allProperties)>>
                           ELSE <<FailureResult(thrown[1])>>
    /\ exc' = <<>>
    /\ pc' = "idle"
    /\ lastShot' = "none"
    /\ UNCHANGED <<site, browser, screenshotCounter, listingUrlForSuburb, curUrl,
                   curPage, searchUrl, selIdx, allProperties, pageNumber, runs,
                   extractCalls, probed, flowed, resolvedOnce>>
    /\ UNCHANGED <<pageProperties, warnings, lastWait>>
    /\ UNCHANGED cliVars
    /\ UNCHANGED parseVars
    /\ UNCHANGED walkHist

\* a catch block that throws the error on to the caller
catch_rethrow ==
    /\ pc = "S_catch"
    /\ result' = <<>>
    /\ exc' = exc
    /\ pc' = "idle"
    /\ lastShot' = "none"
    /\ UNCHANGED <<site, browser, screenshotCounter, listingUrlForSuburb, page,
                   curUrl, curPage, searchUrl, selIdx, allProperties, pageNumber,
                   runs, extractCalls, probed, flowed, resolvedOnce>>
    /\ UNCHANGED <<pageProperties, warnings, lastWait>>
    /\ UNCHANGED cliVars
    /\ UNCHANGED parseVars
    /\ UNCHANGED walkHist

\* the catch block of the outer try
catch ==
    /\ pc = "S_catch"
    /\ result' = <<FailureResult(exc[1])>>
    /\ exc' = <<>>
    /\ pc' = "idle"
    /\ lastShot' = "none"
    /\ UNCHANGED <<site, browser, screenshotCounter, listingUrlForSuburb, page,
                   curUrl, curPage, searchUrl, selIdx, allProperties, pageNumber,
                   runs, extractCalls, probed, flowed, resolvedOnce>>
    /\ UNCHANGED <<pageProperties, warnings, lastWait>>
    /\ UNCHANGED cliVars
    /\ UNCHANGED parseVars
    /\ UNCHANGED walkHist

----------------------------------------------------------------------------
(* findListingUrlForSuburb *)

\* page.goto(BASE_URL); a rejection is rethrown as the homepage error
gotoHome ==
    /\ pc = "F_gotoHome"
    /\ \E ok \in BOOLEAN :
          IF ok
          THEN /\ curUrl' = HomeUrl
               /\ curPage' = 0
               /\ pc' = "shot_homepage-loaded"
               /\ exc' = exc
          ELSE /\ exc' = <<"Failed to load Property24 homepage">>
               /\ pc' = "S_catch"
               /\ UNCHANGED <<curUrl, curPage>>
    /\ lastShot' = "none"
    /\ UNCHANGED <<site, browser, screenshotCounter, listingUrlForSuburb, page,
                   searchUrl, selIdx, allProperties, pageNumber, result, runs,
                   extractCalls, probed, flowed, resolvedOnce>>
    /\ UNCHANGED <<pageProperties, warnings, lastWait>>
    /\ UNCHANGED cliVars
    /\ UNCHANGED parseVars
    /\ UNCHANGED walkHist

\* closeCookieBanner up to its screenshot: page.$ of the close button, and
\* the click when the button is there; neither call is inside a try
closeCookieBanner ==
    /\ pc = "F_cookie"
    /\ \E lookupOk \in BOOLEAN, clickOk \in BOOLEAN :
          IF ~lookupOk
          THEN exc' = <<"page.$ rejected">> /\ pc' = "S_catch"
          ELSE IF ~site.banner
          THEN exc' = exc /\ pc' = "F_probe"
          ELSE IF clickOk
          THEN exc' = exc /\ pc' = "shot_cookie-consent-closed"
          ELSE exc' = <<"cookieButton.click rejected">> /\ pc' = "S_catch"
    /\ lastShot' = "none"
    /\ UNCHANGED <<site, browser, screenshotCounter, listingUrlForSuburb, page,
                   curUrl, curPage, searchUrl, selIdx, allProperties, pageNumber,
                   result, runs, extractCalls, probed, flowed, resolvedOnce>>
    /\ UNCHANGED <<pageProperties, warnings, lastWait>>
    /\ UNCHANGED cliVars
    /\ UNCHANGED parseVars
    /\ UNCHANGED walkHist

\* the head of the for loop: the loop is over and the resolution error is
\* thrown, or page.$(sel) looks the candidate up (outside the try)
probeSelector ==
    /\ pc = "F_probe"
    /\ IF selIdx > Len(searchInputSelectors)
       THEN /\ exc' = <<"Could not resolve listing URL for suburb">>
            /\ pc' = "S_catch"
            /\ UNCHANGED <<selIdx, probed, flowed>>
       ELSE \E ok \in BOOLEAN :
               IF ~ok
               THEN /\ exc' = <<"page.$ rejected">>
                    /\ pc' = "S_catch"
                    /\ UNCHANGED <<selIdx, probed, flowed>>
               ELSE /\ probed' = Append(probed, selIdx)
                    /\ exc' = exc
                    /\ IF site.inputs[selIdx]
                       THEN /\ flowed' = Append(flowed, selIdx)
                            /\ pc' = "F_type"
                            /\ selIdx' = selIdx
                       ELSE /\ flowed' = flowed
                            /\ pc' = "F_probe"
                            /\ selIdx' = selIdx + 1
    /\ lastShot' = "none"
    /\ UNCHANGED <<site, browser, screenshotCounter, listingUrlForSuburb, page,
                   curUrl, curPage, searchUrl, allProperties, pageNumber, result,
                   runs, extractCalls, resolvedOnce>>
    /\ UNCHANGED <<pageProperties, warnings, lastWait>>
    /\ UNCHANGED cliVars
    /\ UNCHANGED parseVars
    /\ UNCHANGED walkHist

\* page.focus, page.click(...).catch, page.type; a rejection is caught by the
\* try of the loop body and the next candidate is tried
typeQuery ==
    /\ pc = "F_type"
    /\ \E ok \in BOOLEAN :
          IF ok
          THEN pc' = "shot_search-input-filled" /\ selIdx' = selIdx
          ELSE pc' = "F_probe" /\ selIdx' = selIdx + 1
    /\ lastShot' = "none"
    /\ UNCHANGED <<site, browser, screenshotCounter, listingUrlForSuburb, page,
                   curUrl, curPage, searchUrl, allProperties, pageNumber, exc,
                   result, runs, extractCalls, probed, flowed, resolvedOnce>>
    /\ UNCHANGED <<pageProperties, warnings, lastWait>>
    /\ UNCHANGED cliVars
    /\ UNCHANGED parseVars
    /\ UNCHANGED walkHist

\* page.keyboard.press("Enter"): the page may navigate
pressEnter ==
    /\ pc = "F_enter"
    /\ \E ok \in BOOLEAN, u \in {curUrl} \cup LandingUrls :
          IF ok
          THEN pc' = "shot_search-submitted" /\ selIdx' = selIdx /\ curUrl' = u
          ELSE pc' = "F_probe" /\ selIdx' = selIdx + 1 /\ curUrl' = curUrl
    /\ lastShot' = "none"
    /\ UNCHANGED <<site, browser, screenshotCounter, listingUrlForSuburb, page,
                   curPage, searchUrl, allProperties, pageNumber, exc, result,
                   runs, extractCalls, probed, flowed, resolvedOnce>>
    /\ UNCHANGED <<pageProperties, warnings, lastWait>>
    /\ UNCHANGED cliVars
    /\ UNCHANGED parseVars
    /\ UNCHANGED walkHist

\* clickSearchButton that skips the click when the button is not there
clickSearchButton_optional ==
    /\ pc = "F_button"
    /\ \E ok \in BOOLEAN, u \in {curUrl} \cup LandingUrls :
          IF ~site.button
          THEN pc' = "F_waitNav" /\ selIdx' = selIdx /\ curUrl' = curUrl
          ELSE IF ok
          THEN pc' = "shot_search-button-clicked" /\ selIdx' = selIdx /\ curUrl' = u
          ELSE pc' = "F_probe" /\ selIdx' = selIdx + 1 /\ curUrl' = curUrl
    /\ lastShot' = "none"
    /\ UNCHANGED <<site, browser, screenshotCounter, listingUrlForSuburb, page,
                   curPage, searchUrl, allProperties, pageNumber, exc, result,
                   runs, extractCalls, probed, flowed, resolvedOnce>>
    /\ UNCHANGED <<pageProperties, warnings, lastWait>>
    /\ UNCHANGED cliVars
    /\ UNCHANGED parseVars
    /\ UNCHANGED walkHist

\* page.focus and page.click of the search button: both reject when the
\* button is not on the page
clickSearchButton ==
    /\ pc = "F_button"
    /\ \E ok \in BOOLEAN, u \in {curUrl} \cup LandingUrls :
          IF site.button /\ ok
          THEN pc' = "shot_search-button-clicked" /\ selIdx' = selIdx /\ curUrl' = u
          ELSE pc' = "F_probe" /\ selIdx' = selIdx + 1 /\ curUrl' = curUrl
    /\ lastShot' = "none"
    /\ UNCHANGED <<site, browser, screenshotCounter, listingUrlForSuburb, page,
                   curPage, searchUrl, allProperties, pageNumber, exc, result,
                   runs, extractCalls, probed, flowed, resolvedOnce>>
    /\ UNCHANGED <<pageProperties, warnings, lastWait>>
    /\ UNCHANGED cliVars
    /\ UNCHANGED parseVars
    /\ UNCHANGED walkHist

\* page.waitForNavigation: a timeout is caught
waitForNavigation ==
    /\ pc = "F_waitNav"
    /\ \E navigated \in BOOLEAN :
          pc' = IF navigated THEN "shot_after-navigation" ELSE "shot_navigation-timeout"
    /\ lastShot' = "none"
    /\ UNCHANGED <<site, browser, screenshotCounter, listingUrlForSuburb, page,
                   curUrl, curPage, searchUrl, selIdx, allProperties, pageNumber,
                   exc, result, runs, extractCalls, probed, flowed, resolvedOnce>>
    /\ UNCHANGED <<pageProperties, warnings, lastWait>>
    /\ UNCHANGED cliVars
    /\ UNCHANGED parseVars
    /\ UNCHANGED walkHist

\* readUrl that gives up at the first URL that is not accepted
readUrl_giveUp ==
    /\ pc = "F_readUrl"
    /\ IF acceptsUrl(curUrl)
       THEN /\ searchUrl' = curUrl
            /\ resolvedOnce' = curUrl
            /\ pc' = "S_goto"
            /\ exc' = exc
       ELSE /\ pc' = "S_catch"
            /\ exc' = <<"Could not resolve listing URL for suburb">>
            /\ UNCHANGED <<searchUrl, resolvedOnce>>
    /\ lastShot' = "none"
    /\ UNCHANGED <<site, browser, screenshotCounter, listingUrlForSuburb, page,
                   curUrl, curPage, selIdx, allProperties, pageNumber, result, runs,
                   extractCalls, probed, flowed>>
    /\ UNCHANGED <<pageProperties, warnings, lastWait>>
    /\ UNCHANGED cliVars
    /\ UNCHANGED parseVars
    /\ UNCHANGED walkHist

\* page.url() and its test: the URL is returned to scrapeSuburb, or the loop
\* goes on
readUrl ==
    /\ pc = "F_readUrl"
    /\ IF acceptsUrl(curUrl)
       THEN /\ searchUrl' = curUrl
            /\ resolvedOnce' = curUrl
            /\ pc' = "S_goto"
            /\ selIdx' = selIdx
       ELSE /\ pc' = "F_probe"
            /\ selIdx' = selIdx + 1
            /\ UNCHANGED <<searchUrl, resolvedOnce>>
    /\ lastShot' = "none"
    /\ UNCHANGED <<site, browser, screenshotCounter, listingUrlForSuburb, page,
                   curUrl, curPage, allProperties, pageNumber, exc, result, runs,
                   extractCalls, probed, flowed>>
    /\ UNCHANGED <<pageProperties, warnings, lastWait>>
    /\ UNCHANGED cliVars
    /\ UNCHANGED parseVars
    /\ UNCHANGED walkHist

----------------------------------------------------------------------------
(* extractPropertiesWithPagination and goToNextPage *)

\* the cap tested one page late
loopCondition_offByOne(n) == n <= maxPages + 1

loopCondition(n) == n <= maxPages

\* the records of a page put in front of the accumulator
pushAll_prepend(all, batch) == batch \o all

\* allProperties.push(...pageProperties)
pushAll(all, batch) == all \o batch

\* extractProperties(page): page.content() rejects, or the records of the
\* page are appended
extractPage ==
    /\ pc = "P_extract"
    /\ extractCalls' = extractCalls + 1
    /\ \E ok \in BOOLEAN :
          IF ok
          THEN /\ pageProperties' = extractProperties(PageHtml(curPage))
               /\ allProperties' = pushAll(allProperties, pageProperties')
               /\ warnings' = warnings \cup extractWarnings(PageHtml(curPage))
               /\ pc' = "P_next"
               /\ exc' = exc
          ELSE /\ exc' = <<"page.content rejected">>
               /\ pc' = "S_finally"
               /\ UNCHANGED <<allProperties, pageProperties, warnings>>
    /\ lastShot' = "none"
    /\ UNCHANGED <<site, browser, screenshotCounter, listingUrlForSuburb, page,
                   curUrl, curPage, searchUrl, selIdx, pageNumber, result, runs,
                   probed, flowed, resolvedOnce>>
    /\ UNCHANGED lastWait
    /\ UNCHANGED cliVars
    /\ UNCHANGED parseVars
    /\ UNCHANGED walkHist

\* a walk that ends at the first page without records
goToNextPage_stopOnEmpty ==
    /\ pc = "P_next"
    /\ \E rejects \in 0..(Len(nextPageSelectors) + 1) :
          LET first == firstCandidate(curPage)
              lookups == IF first = 0 THEN Len(nextPageSelectors) ELSE first
              caught == \/ rejects \in 1..lookups
                        \/ (rejects = Len(nextPageSelectors) + 1 /\ first # 0)
          IN  IF ~caught /\ first # 0 /\ pageProperties # <<>>
              THEN /\ curPage' = curPage + 1
                   /\ activations' = activations + 1
                   /\ clicked' = first
                   /\ pc' = "P_waitNav"
                   /\ warnings' = warnings
              ELSE /\ curPage' = curPage
                   /\ pc' = "shot_properties-extracted"
                   /\ warnings' = IF caught THEN warnings \cup {"nav-error"} ELSE warnings
                   /\ UNCHANGED <<activations, clicked>>
    /\ lastShot' = "none"
    /\ UNCHANGED <<site, browser, screenshotCounter, listingUrlForSuburb, page,
                   curUrl, searchUrl, selIdx, allProperties, pageNumber, exc,
                   result, runs, extractCalls, probed, flowed, resolvedOnce>>
    /\ UNCHANGED <<pageProperties, lastWait>>
    /\ UNCHANGED cliVars
    /\ UNCHANGED parseVars

\* goToNextPage up to the click: page.$ for the candidates in list order up
\* to the first that exists, then its click.  One of these calls may reject
\* (rejects = i: page.$ of candidate i, Len + 1: the click; 0: none); the
\* rejection is caught and warned.  Without a click the walk returns its
\* accumulator
goToNextPage ==
    /\ pc = "P_next"
    /\ \E rejects \in 0..(Len(nextPageSelectors) + 1) :
          LET first == firstCandidate(curPage)
              lookups == IF first = 0 THEN Len(nextPageSelectors) ELSE first
              caught == \/ rejects \in 1..lookups
                        \/ (rejects = Len(nextPageSelectors) + 1 /\ first # 0)
          IN  IF ~caught /\ first # 0
              THEN /\ curPage' = curPage + 1
                   /\ activations' = activations + 1
                   /\ clicked' = first
                   /\ pc' = "P_waitNav"
                   /\ warnings' = warnings
              ELSE /\ curPage' = curPage
                   /\ pc' = "shot_properties-extracted"
                   /\ warnings' = IF caught THEN warnings \cup {"nav-error"} ELSE warnings
                   /\ UNCHANGED <<activations, clicked>>
    /\ lastShot' = "none"
    /\ UNCHANGED <<site, browser, screenshotCounter, listingUrlForSuburb, page,
                   curUrl, searchUrl, selIdx, allProperties, pageNumber, exc,
                   result, runs, extractCalls, probed, flowed, resolvedOnce>>
    /\ UNCHANGED <<pageProperties, lastWait>>
    /\ UNCHANGED cliVars
    /\ UNCHANGED parseVars

\* the timeout of both waits taken as an error of goToNextPage
waitsTolerated_strict(navigated, cards) == navigated \/ cards

\* the nested try blocks of the waits: a timeout of the navigation wait falls
\* back to the card wait, whose timeout is ignored
waitsTolerated(navigated, cards) ==
    IF navigated THEN TRUE ELSE IF cards THEN TRUE ELSE TRUE

\* page.waitForNavigation, on timeout page.waitForSelector: both timeouts are
\* caught
waitNextPage ==
    /\ pc = "P_waitNav"
    /\ \E navigated \in BOOLEAN, cards \in BOOLEAN :
          /\ lastWait' = IF navigated THEN "navigated"
                         ELSE IF cards THEN "cards" ELSE "timeout"
          /\ IF waitsTolerated(navigated, cards)
             THEN pc' = "shot_pagination-page" /\ warnings' = warnings
             ELSE pc' = "shot_properties-extracted" /\ warnings' = warnings \cup {"nav-error"}
    /\ lastShot' = "none"
    /\ UNCHANGED <<site, browser, screenshotCounter, listingUrlForSuburb, page,
                   curUrl, curPage, searchUrl, selIdx, allProperties, pageNumber,
                   exc, result, runs, extractCalls, probed, flowed, resolvedOnce>>
    /\ UNCHANGED pageProperties
    /\ UNCHANGED cliVars
    /\ UNCHANGED parseVars
    /\ UNCHANGED walkHist

\* goToNextPage returned true: pageNumber++ and the test of the while loop
nextIteration ==
    /\ pc = "P_loop"
    /\ pageNumber' = pageNumber + 1
    /\ pc' = IF loopCondition(pageNumber + 1) THEN "P_extract"
             ELSE "shot_properties-extracted"
    /\ lastShot' = "none"
    /\ UNCHANGED <<site, browser, screenshotCounter, listingUrlForSuburb, page,
                   curUrl, curPage, searchUrl, selIdx, allProperties, exc, result,
                   runs, extractCalls, probed, flowed, resolvedOnce>>
    /\ UNCHANGED <<pageProperties, warnings, lastWait>>
    /\ UNCHANGED cliVars
    /\ UNCHANGED parseVars
    /\ UNCHANGED walkHist

----------------------------------------------------------------------------
(* takeScreenshot *)

ShotLabels ==
    { "shot_homepage-loaded", "shot_cookie-consent-closed",
      "shot_search-input-filled", "shot_search-submitted",
      "shot_search-button-clicked", "shot_after-navigation",
      "shot_navigation-timeout", "shot_listing-page-loaded",
      "shot_pagination-page", "shot_properties-extracted" }

\* the statement after each takeScreenshot call
AfterShot(label) ==
    CASE label = "shot_homepage-loaded"       -> "F_cookie"
      [] label = "shot_cookie-consent-closed" -> "F_probe"
      [] label = "shot_search-input-filled"   -> "F_enter"
      [] label = "shot_search-submitted"      -> "F_button"
      [] label = "shot_search-button-clicked" -> "F_waitNav"
      [] label = "shot_after-navigation"      -> "F_readUrl"
      [] label = "shot_navigation-timeout"    -> "F_readUrl"
      [] label = "shot_listing-page-loaded"   -> "S_waitCards"
      [] label = "shot_pagination-page"       -> "P_loop"
      [] label = "shot_properties-extracted"  -> "S_finally"

\* where an exception leaving takeScreenshot would be handled: the try it is
\* called in decides
ShotThrown(label) ==
    CASE label = "shot_homepage-loaded" ->
            [pc |-> "S_catch", exc |-> <<"Failed to load Property24 homepage">>, sel |-> selIdx]
      [] label = "shot_cookie-consent-closed" ->
            [pc |-> "S_catch", exc |-> <<"screenshot rejected">>, sel |-> selIdx]
      [] label \in {"shot_search-input-filled", "shot_search-submitted",
                    "shot_search-button-clicked", "shot_navigation-timeout"} ->
            [pc |-> "F_probe", exc |-> exc, sel |-> selIdx + 1]
      [] label = "shot_after-navigation" ->
            [pc |-> "shot_navigation-timeout", exc |-> exc, sel |-> selIdx]
      [] label \in {"shot_listing-page-loaded", "shot_properties-extracted"} ->
            [pc |-> "S_finally", exc |-> <<"screenshot rejected">>, sel |-> selIdx]
      [] label = "shot_pagination-page" ->
            [pc |-> "shot_properties-extracted", exc |-> exc, sel |-> selIdx]

\* takeScreenshot(page, label): the counter is incremented, page.screenshot
\* resolves or rejects
takeScreenshot ==
    /\ pc \in ShotLabels
    /\ screenshotCounter' = screenshotCounter + 1
    /\ \E shotOk \in BOOLEAN :
          /\ lastShot' = IF shotOk THEN "saved" ELSE "failed"
          /\ LET after == IF takeScreenshotCompletes(shotOk)
                          THEN [pc |-> AfterShot(pc), exc |-> exc, sel |-> selIdx]
                          ELSE ShotThrown(pc)
             IN  pc' = after.pc /\ exc' = after.exc /\ selIdx' = after.sel
    /\ UNCHANGED <<site, browser, listingUrlForSuburb, page, curUrl, curPage,
                   searchUrl, allProperties, pageNumber, result, runs,
                   extractCalls, probed, flowed, resolvedOnce>>
    /\ lastWait' = "none"
    /\ UNCHANGED <<pageProperties, warnings>>
    /\ UNCHANGED cliVars
    /\ UNCHANGED parseVars
    /\ UNCHANGED walkHist

----------------------------------------------------------------------------

Next ==
    \/ Construct
    \/ init
    \/ close
    \/ scrapeSuburb
    \/ newPage
    \/ gotoListing
    \/ waitForCards
    \/ finally
    \/ catch
    \/ gotoHome
    \/ closeCookieBanner
    \/ probeSelector
    \/ typeQuery
    \/ pressEnter
    \/ clickSearchButton
    \/ waitForNavigation
    \/ readUrl
    \/ extractPage
    \/ goToNextPage
    \/ waitNextPage
    \/ nextIteration
    \/ takeScreenshot

Spec == Init /\ [][Next]_vars

\* the awaited steps of a running method: each one completes (every wait of
\* the code has a timeout), the caller's operations need not happen
Step ==
    \/ newPage \/ gotoListing \/ waitForCards \/ finally \/ catch
    \/ gotoHome \/ closeCookieBanner \/ probeSelector \/ typeQuery
    \/ pressEnter \/ clickSearchButton \/ waitForNavigation \/ readUrl
    \/ extractPage \/ goToNextPage \/ waitNextPage \/ nextIteration
    \/ takeScreenshot

FairSpec == Spec /\ WF_vars(Step)

----------------------------------------------------------------------------
(* The scrape command of the CLI *)

scraperVars ==
    <<site, browser, screenshotCounter, listingUrlForSuburb, pc, page, curUrl,
      curPage, searchUrl, selIdx, allProperties, pageNumber, exc, result,
      runs, extractCalls, probed, flowed, resolvedOnce, pageProperties,
      warnings, lastWait, activations, clicked>>

\* connectDB(): pool.connect resolves, or rejects and the command exits
connectDB ==
    /\ cli = "connect"
    /\ \E ok \in BOOLEAN :
          /\ cli' = IF ok THEN "construct" ELSE "exit1"
          /\ fatal' = IF ok THEN fatal ELSE "connect"
    /\ lastShot' = "none"
    /\ UNCHANGED <<site, browser, screenshotCounter, listingUrlForSuburb, pc, page,
                   curUrl, curPage, searchUrl, selIdx, allProperties, pageNumber,
                   exc, result, runs, extractCalls, probed, flowed, resolvedOnce,
                   pageProperties, warnings, lastWait>>
    /\ UNCHANGED <<saveIdx, savedCount, upsertLog, closeCalls, db, upserted, dbBefore>>
    /\ UNCHANGED parseVars
    /\ UNCHANGED walkHist

\* the save loop without its try/catch: a rejected upsert ends the command
saveProperty_uncaught ==
    /\ cli = "save"
    /\ pc = "idle"
    /\ saveIdx <= Len(result[1].properties)
    /\ \E ok \in BOOLEAN :
          /\ db' = IF ok THEN insertProperty(db, result[1].properties[saveIdx]) ELSE db
          /\ savedCount' = IF ok THEN savedCount + 1 ELSE savedCount
          /\ upsertLog' = Append(upsertLog,
                                 [property |-> result[1].properties[saveIdx], ok |-> ok])
          /\ cli' = IF ok THEN cli ELSE "exit1"
          /\ fatal' = IF ok THEN fatal ELSE "insert"
    /\ saveIdx' = saveIdx + 1
    /\ lastShot' = "none"
    /\ UNCHANGED <<site, browser, screenshotCounter, listingUrlForSuburb, pc, page,
                   curUrl, curPage, searchUrl, selIdx, allProperties, pageNumber,
                   exc, result, runs, extractCalls, probed, flowed, resolvedOnce,
                   pageProperties, warnings, lastWait>>
    /\ UNCHANGED <<closeCalls, upserted, dbBefore>>
    /\ UNCHANGED parseVars
    /\ UNCHANGED walkHist

\* one iteration of the save loop: insertProperty resolves and is counted, or
\* rejects and is warned about
saveProperty ==
    /\ cli = "save"
    /\ pc = "idle"
    /\ saveIdx <= Len(result[1].properties)
    /\ \E ok \in BOOLEAN :
          /\ db' = IF ok THEN insertProperty(db, result[1].properties[saveIdx]) ELSE db
          /\ savedCount' = IF ok THEN savedCount + 1 ELSE savedCount
          /\ upsertLog' = Append(upsertLog,
                                 [property |-> result[1].properties[saveIdx], ok |-> ok])
    /\ saveIdx' = saveIdx + 1
    /\ lastShot' = "none"
    /\ UNCHANGED <<site, browser, screenshotCounter, listingUrlForSuburb, pc, page,
                   curUrl, curPage, searchUrl, selIdx, allProperties, pageNumber,
                   exc, result, runs, extractCalls, probed, flowed, resolvedOnce,
                   pageProperties, warnings, lastWait>>
    /\ UNCHANGED <<cli, closeCalls, upserted, dbBefore, fatal>>
    /\ UNCHANGED parseVars
    /\ UNCHANGED walkHist

\* a save loop left after any number of records
displayResults_early ==
    /\ cli = "save"
    /\ pc = "idle"
    /\ cli' = "close"
    /\ lastShot' = "none"
    /\ UNCHANGED scraperVars
    /\ UNCHANGED cliData
    /\ UNCHANGED parseVars

\* the save loop is over (or was skipped): the results are displayed
displayResults ==
    /\ cli = "save"
    /\ pc = "idle"
    /\ saveIdx > Len(result[1].properties)
    /\ cli' = "close"
    /\ lastShot' = "none"
    /\ UNCHANGED <<site, browser, screenshotCounter, listingUrlForSuburb, pc, page,
                   curUrl, curPage, searchUrl, selIdx, allProperties, pageNumber,
                   exc, result, runs, extractCalls, probed, flowed, resolvedOnce,
                   pageProperties, warnings, lastWait>>
    /\ UNCHANGED cliData
    /\ UNCHANGED parseVars
    /\ UNCHANGED walkHist

\* closeDB(): pool.end resolves, or rejects and the command exits
closeDB ==
    /\ cli = "closeDB"
    /\ \E ok \in BOOLEAN :
          /\ cli' = IF ok THEN "done" ELSE "exit1"
          /\ fatal' = IF ok THEN fatal ELSE "closeDB"
    /\ lastShot' = "none"
    /\ UNCHANGED <<site, browser, screenshotCounter, listingUrlForSuburb, pc, page,
                   curUrl, curPage, searchUrl, selIdx, allProperties, pageNumber,
                   exc, result, runs, extractCalls, probed, flowed, resolvedOnce,
                   pageProperties, warnings, lastWait>>
    /\ UNCHANGED <<saveIdx, savedCount, upsertLog, closeCalls, db, upserted, dbBefore>>
    /\ UNCHANGED parseVars
    /\ UNCHANGED walkHist

CliNext ==
    \/ connectDB
    \/ Construct
    \/ init
    \/ scrapeSuburb
    \/ newPage
    \/ gotoListing
    \/ waitForCards
    \/ finally
    \/ catch
    \/ gotoHome
    \/ closeCookieBanner
    \/ probeSelector
    \/ typeQuery
    \/ pressEnter
    \/ clickSearchButton
    \/ waitForNavigation
    \/ readUrl
    \/ extractPage
    \/ goToNextPage
    \/ waitNextPage
    \/ nextIteration
    \/ takeScreenshot
    \/ saveProperty
    \/ displayResults
    \/ close
    \/ closeDB

CliSpec == CliInit /\ [][CliNext]_vars

----------------------------------------------------------------------------
(* The properties table taken alone *)

\* insertProperty(property), twice from the table of StoreInit: the query
\* resolves with the row, or rejects and leaves the table as it was
upsert ==
    /\ Len(upserted) < 2
    /\ \E property \in StoreRecords, ok \in BOOLEAN :
          IF ok
          THEN /\ db' = insertProperty(db, property)
               /\ upserted' = Append(upserted, property)
          ELSE UNCHANGED <<db, upserted>>
    /\ UNCHANGED scraperVars
    /\ UNCHANGED <<lastShot, cli, saveIdx, savedCount, upsertLog, closeCalls, dbBefore, fatal>>
    /\ UNCHANGED parseVars

StoreNext == upsert

StoreSpec == StoreInit /\ [][StoreNext]_vars

----------------------------------------------------------------------------
(* parseAddress and parsePrice taken alone *)

RECURSIVE TextsUpTo(_, _)
TextsUpTo(tokens, n) ==
    IF n = 0 THEN { <<>> }
    ELSE TextsUpTo(tokens, n - 1)
             \cup { Append(t, k) : t \in TextsUpTo(tokens, n - 1), k \in tokens }

\* address texts: commas, white space and two words
AddressTexts == TextsUpTo({",", " ", "12 Main Rd", "Rosebank"}, MaxAddressLen)

\* price texts: the currency marker in both cases, the characters of the
\* class, another character and the unit
PriceTexts == TextsUpTo({"R", "r", " ", ",", ".", "1", "x", "per m²"}, MaxPriceLen)

\* a container text is given to one of the parsers
ParseInit ==
    /\ site \in LongSites
    /\ ScraperInit
    /\ cli = "off"
    /\ db = EmptyDb
    /\ dbBefore = EmptyDb
    /\ \/ addressText \in AddressTexts /\ priceText = <<>>
       \/ addressText = <<>> /\ priceText \in PriceTexts

\* const addressParts = this.parseAddress(addressText)
parseAddressCall ==
    /\ addressParts = <<>>
    /\ addressParts' = << parseAddress(addressText) >>
    /\ UNCHANGED scraperVars
    /\ UNCHANGED cliVars
    /\ UNCHANGED <<lastShot, addressText, priceText, parsedPrice>>

\* const { totalPrice, pricePerSqm } = this.parsePrice(priceText)
parsePriceCall ==
    /\ parsedPrice = <<>>
    /\ parsedPrice' = << parsePrice(priceText) >>
    /\ UNCHANGED scraperVars
    /\ UNCHANGED cliVars
    /\ UNCHANGED <<lastShot, addressText, addressParts, priceText>>

ParseNext ==
    \/ parseAddressCall
    \/ parsePriceCall

ParseSpec == ParseInit /\ [][ParseNext]_vars

----------------------------------------------------------------------------
(* Properties *)

Returned == pc = "idle" /\ result # <<>>

\* extractPropertiesWithPagination has just returned its accumulator
WalkReturned == pc = "shot_properties-extracted"

InWalk == pc \in {"P_extract", "P_next", "P_waitNav", "shot_pagination-page", "P_loop"}

RECURSIVE ConcatPages(_)
ConcatPages(n) ==
    IF n = 0 THEN <<>> ELSE ConcatPages(n - 1) \o extractProperties(PageHtml(n))

\* C1: when the walk over a site of N pages (1 <= N <= 100, page N the first
\* without a next-page control) returns from page N, it returns the records
\* of pages 1..N concatenated in page order and has called extractProperties
\* exactly N times.
C1_Concatenation ==
    (WalkReturned /\ site.lastPage \in 1..maxPages /\ curPage = site.lastPage)
        => /\ allProperties = ConcatPages(site.lastPage)
           /\ extractCalls = site.lastPage

C1_Witness ==
    /\ WalkReturned
    /\ site.lastPage = maxPages
    /\ curPage = maxPages
    /\ Len(allProperties) > maxPages

\* C2: the walk never calls extractProperties more than maxPages times, and
\* a walk that has started ends, whatever the site exposes.
C2_Terminates ==
    /\ [](extractCalls <= maxPages)
    /\ (InWalk ~> ~InWalk)

C2_Witness ==
    /\ WalkReturned
    /\ site.lastPage = Endless
    /\ extractCalls = maxPages
    /\ pageNumber = maxPages + 1

\* C3: a scrapeSuburb that reached the pagination stage returns success = true
\* with the records it collected.
C3_SuccessOncePaginating ==
    (Returned /\ extractCalls >= 1)
        => result[1].success /\ result[1].properties = allProperties

\* C4: a scrapeSuburb that returns without having reached the pagination
\* stage returns success = false, a non-empty errors list, propertiesScraped
\* = 0 and no properties.
C4_EarlyFailure ==
    (Returned /\ extractCalls = 0)
        => /\ result[1].success = FALSE
           /\ Len(result[1].errors) > 0
           /\ result[1].propertiesScraped = 0
           /\ result[1].properties = <<>>

C4_Witness ==
    /\ Returned
    /\ extractCalls = 0
    /\ searchUrl # <<>>
    /\ result[1].errors = <<"goto rejected">>

\* C5: once findListingUrlForSuburb has returned a URL on an instance, no
\* later call on that instance navigates to the homepage again.
C5_Memoized == (pc = "F_gotoHome") => resolvedOnce = <<>>

Exists(i) == site.inputs[i]

\* C6: the candidates are looked up in list order, the flow is run for
\* exactly those that exist, after a candidate is given up the next one in
\* the list is looked up, and the resolution error is thrown only after all
\* candidates were looked up.
C6_CandidatesInOrder ==
    /\ \A i \in 1..Len(probed) : probed[i] = i
    /\ flowed = SelectSeq(probed, Exists)
    /\ (pc = "F_probe" => selIdx = Len(probed) + 1)
    /\ (exc = <<"Could not resolve listing URL for suburb">>
            => Len(probed) = Len(searchInputSelectors))

C6_Witness ==
    /\ Returned
    /\ result[1].errors = <<"Could not resolve listing URL for suburb">>
    /\ flowed = <<1, 2>>

IsListingIndexUrl(u) ==
    \/ \E i \in 1..(Len(u) - 2) :
          u[i] = "/" /\ u[i + 1] \in {"properties", "Properties", "p", "P"} /\ u[i + 2] = "/"
    \/ \E i \in 1..Len(u) : u[i] \in {"for-sale", "FOR-SALE"}

\* C7: the URL findListingUrlForSuburb returns contains /properties/,
\* for-sale or /p/, in any letter case.
C7_ReturnedUrlMatches == (searchUrl # <<>>) => IsListingIndexUrl(searchUrl)

C7_Witness ==
    /\ pc = "S_goto"
    /\ searchUrl = BASE_URL \o <<"/", "Properties", "/", "sandton">>

\* C8 as stated: with no search button on the page, the flow of the current
\* candidate goes on to the navigation wait and the reading of the URL.
C8_ButtonSupplementary ==
    [][(pc = "F_button" /\ ~site.button)
          => pc' \in {"shot_search-button-clicked", "F_waitNav"}]_vars

\* C8 amended: with no search button on the page, the flow of the current
\* candidate is given up without reading the URL, and the next candidate is
\* tried.
C8_ButtonRequired ==
    [][(pc = "F_button" /\ ~site.button)
          => (pc' = "F_probe" /\ selIdx' = selIdx + 1 /\ searchUrl' = <<>>)]_vars

C8_Witness ==
    /\ ~site.button
    /\ pc = "F_probe"
    /\ flowed = <<1>>
    /\ selIdx = 2
    /\ acceptsUrl(curUrl)

\* C9: a failure of the click on the consent banner's close button never is
\* the failure of the run.
C9_BannerBestEffort ==
    Returned => result[1].errors # <<"cookieButton.click rejected">>

\* C10: a takeScreenshot whose page.screenshot rejected continues at the
\* statement after the call, with nothing but the counter changed, as one
\* whose page.screenshot resolved.
C10_ShotNeverPropagates ==
    [][(pc \in ShotLabels /\ lastShot' = "failed")
          => /\ pc' = AfterShot(pc)
             /\ screenshotCounter' = screenshotCounter + 1
             /\ UNCHANGED <<exc, selIdx, result, searchUrl, allProperties,
                            pageNumber, page, curUrl, curPage>>]_vars

C10_Witness == lastShot = "failed" /\ pc = "P_loop" /\ pageNumber = 2

----------------------------------------------------------------------------
(* Properties of the scrape command and of the table *)

\* the scrape command's process has ended
ProcessEnded == cli \in {"done", "exit1"}

\* the save loop of the scrape command is over
SaveLoopOver ==
    \/ cli \in {"close", "closeDB", "done"}
    \/ (cli = "exit1" /\ closeCalls = 1)

FailedUpserts == {i \in 1..Len(upsertLog) : ~upsertLog[i].ok}

\* C11: scraper.close() is never invoked twice by the scrape command, and when
\* the process of a command that launched the browser has ended, it has been
\* invoked exactly once, whatever the outcome of the run and of the upserts.
C11_CloseOnce ==
    /\ closeCalls <= 1
    /\ (ProcessEnded /\ browser # "null") => closeCalls = 1

C11_Witness ==
    /\ cli = "done"
    /\ closeCalls = 1
    /\ FailedUpserts # {}

\* C12: the save loop calls insertProperty once per record of the outcome, in
\* the outcome's order, goes on after a failed upsert, and counts as saved
\* the upserts that succeeded.
C12_OneUpsertPerRecord ==
    /\ Len(upsertLog) = saveIdx - 1
    /\ \A i \in 1..Len(upsertLog) :
          /\ i <= Len(result[1].properties)
          /\ upsertLog[i].property = result[1].properties[i]
    /\ savedCount = Len(upsertLog) - Cardinality(FailedUpserts)
    /\ SaveLoopOver => Len(upsertLog) = Len(result[1].properties)

C12_Witness ==
    /\ cli = "close"
    /\ Len(upsertLog) = 5
    /\ FailedUpserts = {2}
    /\ savedCount = 4

RowsOf(d, url) == {i \in 1..Len(d.rows) : d.rows[i].property_url = url}

\* two upserts of the same URL with different values have happened
SameUrlTwice ==
    /\ Len(upserted) = 2
    /\ upserted[1].property_url = upserted[2].property_url
    /\ upserted[1] # upserted[2]

\* C13: after two upserts of records with the same property_url and different
\* values, from any table, the table has exactly one row of that URL, it
\* carries the values of the second record (and the id and created_at it had,
\* if it existed before), and the rows of the other URLs are as they were.
C13_UpsertKeepsOneRow ==
    SameUrlTwice =>
        LET url == upserted[2].property_url
        IN  /\ Cardinality(RowsOf(db, url)) = 1
            /\ \A i \in RowsOf(db, url) :
                  /\ db.rows[i].suburb = upserted[2].suburb
                  /\ db.rows[i].status = nullIfUndefined(upserted[2].status)
                  /\ \A j \in RowsOf(dbBefore, url) :
                        /\ db.rows[i].id = dbBefore.rows[j].id
                        /\ db.rows[i].created_at = dbBefore.rows[j].created_at
            /\ {db.rows[i] : i \in (1..Len(db.rows)) \ RowsOf(db, url)}
                  = {dbBefore.rows[j] : j \in (1..Len(dbBefore.rows)) \ RowsOf(dbBefore, url)}

C13_Witness ==
    /\ SameUrlTwice
    /\ RowsOf(dbBefore, upserted[2].property_url) = {}
    /\ Len(dbBefore.rows) = 1
    /\ Len(db.rows) = 2
    /\ upserted[1].status = "under_offer"
    /\ upserted[2].status = "undefined"

----------------------------------------------------------------------------
(* Properties of extractProperties and of the walk's error handling *)

\* extractProperties has just returned the records of the current page
PageExtracted == pc = "P_next"

\* the container has a link the extractor can resolve
Resolvable(c) == c.forSale # <<>> \/ c.title # <<>>

Parses(c) == ~c.raises

ResolvableAndParses(c) == Resolvable(c) /\ Parses(c)

\* C14: the records of a page are, in document order, one record per
\* container with a resolvable link (whose parsing does not raise), each the
\* record that container gives when it is alone on a page; a container
\* without a resolvable link gives none.
C14_OneRecordPerResolvable ==
    PageExtracted =>
        LET kept == SelectSeq(PageHtml(curPage), ResolvableAndParses)
        IN  /\ Len(pageProperties) = Len(kept)
            /\ \A i \in 1..Len(kept) :
                  << pageProperties[i] >> = extractProperties(<< kept[i] >>)
            /\ \A i \in 1..Len(PageHtml(curPage)) :
                  ~Resolvable(PageHtml(curPage)[i])
                      => extractProperties(<< PageHtml(curPage)[i] >>) = <<>>

C14_Witness ==
    /\ PageExtracted
    /\ PageHtml(curPage) = <<cardB2, cardNoLink, cardRaises, cardHttpdocs, cardA>>
    /\ Len(pageProperties) = 3
    /\ pageProperties[3].property_url = BASE_URL \o <<"/", "for-sale", "/", "sandton", "/", "a1">>

\* C15: the records of a page with containers whose parsing raises are the
\* records of the same page without these containers, and extractProperties
\* returns them.
C15_ContainerIsolated ==
    PageExtracted =>
        /\ pageProperties = extractProperties(SelectSeq(PageHtml(curPage), Parses))
        /\ exc = <<>>

C15_Witness ==
    /\ PageExtracted
    /\ "parse-failed" \in warnings
    /\ \E i \in 2..(Len(PageHtml(curPage)) - 1) : PageHtml(curPage)[i].raises
    /\ Len(pageProperties) = 3
    /\ pageProperties[1].status = "under_offer"
    /\ exc = <<>>

\* a URL with a scheme, the two slashes and a host
IsAbsoluteUrl(u) ==
    /\ Len(u) >= 4
    /\ u[1] \in {"http:", "https:"}
    /\ u[2] = "/"
    /\ u[3] = "/"
    /\ u[4] # "/"

\* C16: every record extracted from a page, and every record of a returned
\* outcome, has a non-empty absolute property_url.
C16_UrlAbsolute ==
    /\ \A i \in 1..Len(pageProperties) : IsAbsoluteUrl(pageProperties[i].property_url)
    /\ Returned =>
          \A i \in 1..Len(result[1].properties) :
              IsAbsoluteUrl(result[1].properties[i].property_url)

\* C17: a walk that returned without an error of goToNextPage returned on a
\* page without next-page control or at the cap, whatever the pages yielded.
C17_EmptyPageGoesOn ==
    (WalkReturned /\ "nav-error" \notin warnings)
        => (~HasNextControl(curPage) \/ pageNumber > maxPages)

C17_Witness ==
    /\ WalkReturned
    /\ "nav-error" \notin warnings
    /\ "no-elements" \in warnings
    /\ site.lastPage = 3
    /\ curPage = 3
    /\ extractCalls = 3
    /\ Len(allProperties) = 5

\* C18: goToNextPage never raises and leaves the accumulator alone; it ends
\* the walk (returning the accumulator) or goes to the waits, and the waits,
\* timed out or not, always end in the advance to the next page.
C18_NextPageNeverFails ==
    [][/\ pc = "P_next"
          => /\ pc' \in {"P_waitNav", "shot_properties-extracted"}
             /\ "nav-error" \in warnings' => pc' = "shot_properties-extracted"
             /\ exc' = <<>>
             /\ UNCHANGED <<allProperties, pageNumber>>
       /\ pc = "P_waitNav"
          => /\ pc' = "shot_pagination-page"
             /\ exc' = <<>>
             /\ UNCHANGED <<allProperties, pageNumber, curPage>>]_vars

C18_Witness ==
    /\ pc = "shot_pagination-page"
    /\ lastWait = "timeout"
    /\ allProperties # <<>>
    /\ exc = <<>>

\* C19: a returned successful outcome of a run that met a page without
\* containers or a container whose parsing raised has a message in errors.
C19_WarningsInErrors ==
    (Returned /\ result[1].success /\ warnings \cap {"no-elements", "parse-failed"} # {})
        => result[1].errors # <<>>

\* C20: the status of each record is sold when the status text of its
\* container contains sold, under_offer when it contains offer and not sold,
\* absent otherwise, and never no_offer.
C20_StatusClassification ==
    PageExtracted =>
        LET kept == SelectSeq(PageHtml(curPage), ResolvableAndParses)
        IN  \A i \in 1..Len(pageProperties) :
               LET text == statusText(kept[i])
                   status == pageProperties[i].status
               IN  /\ includes(text, "sold") => status = "sold"
                   /\ (includes(text, "offer") /\ ~includes(text, "sold"))
                         => status = "under_offer"
                   /\ (~includes(text, "offer") /\ ~includes(text, "sold"))
                         => status = "undefined"
                   /\ status # "no_offer"

C20_Witness ==
    /\ PageExtracted
    /\ PageHtml(curPage) = <<cardTitle, cardAbs>>
    /\ statusText(cardAbs) = <<"sold", "-", "offer", "accepted">>
    /\ pageProperties[2].status = "sold"
    /\ pageProperties[1].status = "undefined"

----------------------------------------------------------------------------
(* Properties of the last claims *)

\* the scrape command ended because puppeteer.launch rejected
LaunchFailed == cli = "exit1" /\ fatal = "launch"

Commas == {i \in 1..Len(addressText) : addressText[i] = ","}

\* where the k-th comma-separated segment of addressText starts and ends
SegmentStart(k) ==
    IF k = 1 THEN 1
    ELSE 1 + CHOOSE i \in Commas : Cardinality({j \in Commas : j <= i}) = k - 1

SegmentEnd(k) ==
    IF k = Cardinality(Commas) + 1 THEN Len(addressText)
    ELSE (CHOOSE i \in Commas : Cardinality({j \in Commas : j <= i}) = k) - 1

\* the k-th segment without the white space around it
TrimmedSegment(k) ==
    LET inked == {i \in SegmentStart(k)..SegmentEnd(k) : addressText[i] # " "}
    IN  IF inked = {} THEN <<>>
        ELSE LET first == CHOOSE i \in inked : \A j \in inked : i <= j
                 last == CHOOSE i \in inked : \A j \in inked : j <= i
             IN  SubSeq(addressText, first, last)

\* C22: street, estate, suburb, city and postalCode are the 1st to 5th
\* trimmed comma-separated segments of the address text, in that order, and a
\* field whose segment is missing or empty is absent.
C22_AddressPositional ==
    addressParts # <<>> =>
        LET fields == << addressParts[1].street, addressParts[1].estate,
                         addressParts[1].suburb, addressParts[1].city,
                         addressParts[1].postalCode >>
        IN  \A k \in 1..5 :
               fields[k] = IF k <= Cardinality(Commas) + 1 /\ TrimmedSegment(k) # <<>>
                           THEN << TrimmedSegment(k) >>
                           ELSE <<>>

C22_Witness ==
    /\ addressText = <<" ", "12 Main Rd", ",", " ", ",", "Rosebank">>
    /\ addressParts = << [street |-> << <<"12 Main Rd">> >>, estate |-> <<>>,
                          suburb |-> << <<"Rosebank">> >>, city |-> <<>>,
                          postalCode |-> <<>>] >>

\* C23: every record of a page has a suburb: the third comma-separated
\* segment of its container's address text when that segment is not empty,
\* the queried suburb otherwise.
C23_SuburbDefault ==
    PageExtracted =>
        LET kept == SelectSeq(PageHtml(curPage), ResolvableAndParses)
        IN  \A i \in 1..Len(pageProperties) :
               LET third == parseAddress(addressTextOf(kept[i])).suburb
               IN  /\ pageProperties[i].suburb # <<>>
                   /\ third # <<>> => pageProperties[i].suburb = third[1]
                   /\ third = <<>> => pageProperties[i].suburb = << suburb >>

C23_Witness ==
    /\ PageExtracted
    /\ Len(pageProperties) = 3
    /\ pageProperties[1].suburb = <<"Rosebank">>
    /\ pageProperties[2].suburb = << suburb >>
    /\ parseAddress(addressTextOf(cardHttpdocs)).estate = << <<"Ashwood", "No", "offers">> >>

\* the price text holds a currency amount: a marker followed, through white
\* space, commas and dots, by a digit
HoldsAmount ==
    \E i \in 1..Len(priceText) :
        /\ priceText[i] \in {"R", "r"}
        /\ \E j \in (i + 1)..Len(priceText) :
              /\ priceText[j] = "1"
              /\ \A k \in (i + 1)..j : priceText[k] \in {" ", ",", ".", "1"}

\* C24: for a price text that holds no currency amount parsePrice returns
\* totalPrice and pricePerSqm absent (and so no not-a-number value).
C24_NoAmountAbsent ==
    (parsedPrice # <<>> /\ ~HoldsAmount)
        => /\ parsedPrice[1].totalPrice = <<>>
           /\ parsedPrice[1].pricePerSqm = <<>>

\* C25: a goToNextPage that advances has clicked one control, the first
\* candidate in list order that exists on the page, and a goToNextPage that
\* reports no next page was on a page where no candidate exists.
C25_FirstExistingCandidate ==
    [][pc = "P_next"
          => /\ pc' = "P_waitNav"
                   => /\ activations' = activations + 1
                      /\ clicked' = firstCandidate(curPage)
                      /\ clicked' \in NextControls(curPage)
             /\ pc' = "shot_properties-extracted" => NextControls(curPage) = {}]_vars

\* C26: when scrapeSuburb has returned, the page it opened is closed, unless
\* page.close() itself was what failed.
C26_PageClosed ==
    (Returned /\ page = "open") => result[1].errors = <<"page.close rejected">>

\* C27: a scrapeSuburb call that is over has returned a ScraperResult (no
\* exception is left in flight), with an error message when it is a failure.
C27_NeverThrows ==
    (pc = "idle" /\ runs > 0)
        => /\ exc = <<>>
           /\ result # <<>>
           /\ result[1].success \in BOOLEAN
           /\ result[1].propertiesScraped = Len(result[1].properties)
           /\ ~result[1].success => Len(result[1].errors) = 1

C27_Witness ==
    /\ Returned
    /\ extractCalls >= 1
    /\ ~result[1].success
    /\ result[1].errors = <<"page.close rejected">>
    /\ exc = <<>>

\* C28: when the walk ends, the next-page controls it clicked are one fewer
\* than its extractProperties calls.
C28_ActivationsMatchExtractions ==
    WalkReturned => activations = extractCalls - 1

====
